---- MODULE Spec2Model ----
(***************************************************************************)
(* Model of the MCP RPC layer of atlassian-mcp:                            *)
(*   - MCPServer (mcp/server/MCPServer.ts): tool registry + dispatcher     *)
(*   - MCPClient (mcp/client/MCPClient.ts): request/response correlator    *)
(*     and the reconnect logic of handleDisconnect                         *)
(*   - withRetry (utils/retry.ts): the retry loop                          *)
(* Strings whose characters the code inspects (tool names, method names,   *)
(* routing keys) are sequences of one-character strings, so that           *)
(* concatenation, split('.') and startsWith are computed, not assumed.     *)
(***************************************************************************)
EXTENDS Integers, Sequences, FiniteSets, TLC

VARIABLES
    \* ---- MCPServer ----
    tools,            \* Map<string, MCPTool>: name -> methods of the stored descriptor
    commandHandlers,  \* Map<string, handler>: routing key -> handler closure
    running,          \* handleCommand calls suspended at `await handler(command)`
    sent,             \* what sendResponse was called with, in order
    inbound,          \* the messages handleMessage was called with, and how each call ended
    \* ---- MCPClient ----
    connection,       \* this.connection # null
    messageHandlers,  \* Map<string, (response) => void>: message id -> the call it resolves
    timers,           \* message ids whose 30 s timer is armed
    sending,          \* message ids whose connection.send() promise is still pending
    calls,            \* the calls made so far: message id -> kind, promise, result
    \* ---- MCPClient, reconnection ----
    options,          \* this.options.maxReconnectAttempts, as given to the constructor
    reconnectAttempts,\* this.reconnectAttempts
    reconnectTimeout, \* this.reconnectTimeout: "null", or a timer still "armed" or already "fired"
    strayTimers,      \* armed reconnect timers this.reconnectTimeout no longer refers to
    attempting,       \* reconnect callbacks suspended at `await this.connect()`
    failed,           \* handleDisconnect threw 'Max reconnection attempts reached'
                      \* and no connect() has completed since
    lastReconnect,    \* how the latest connect() of a reconnect callback ended, and
                      \* the number of failed ones in a row up to it
    losses,           \* link losses signalled to handleDisconnect so far
    \* ---- withRetry ----
    config,           \* the RetryConfig of the call
    attempt,          \* the loop variable
    pc,               \* "idle", "call" (about to invoke), "wait", "returned", "threw"
    invocations,      \* how each invocation of operation() ended, in order
    waits,            \* the delays slept between invocations, in order
    retryResult,      \* what withRetry returned or threw
    \* ---- the HTTP client (core/MCPClient.ts) ----
    requests          \* how each axiosInstance.request() of the call ended, in order

serverVars == <<tools, commandHandlers, running, sent, inbound>>
clientVars == <<connection, messageHandlers, timers, sending, calls>>
reconnVars == <<options, reconnectAttempts, reconnectTimeout, strayTimers,
                attempting, failed, lastReconnect, losses>>
retryVars == <<config, attempt, pc, invocations, waits, retryResult, requests>>
vars == <<tools, commandHandlers, running, sent, inbound,
          connection, messageHandlers, timers, sending, calls,
          options, reconnectAttempts, reconnectTimeout, strayTimers,
          attempting, failed, lastReconnect, losses,
          config, attempt, pc, invocations, waits, retryResult, requests>>

\* ------------------------------------------------------------------ bounds
MaxMsgs == 3       \* inbound messages handed to MCPServer.handleMessage
MaxCalls == 2      \* calls made on the MCPClient
MaxLosses == 2     \* link losses signalled to MCPClient.handleDisconnect
MaxConfigured == 2 \* largest maxReconnectAttempts given to the MCPClient constructor
MaxRetries == 3    \* largest maxRetries given to withRetry

\* ------------------------------------------------------------------ values
Undefined == "undefined"   \* JS undefined / an absent field

Dot == "."
ToolNames == { <<"a">>, <<"a", "b">>, <<"b", ".", "a">> }
MethodNames == { <<"m">>, <<"n">> }

\* ------------------------------------------------------------------ strings
\* String.prototype.startsWith
StartsWith(s, p) == Len(p) <= Len(s) /\ SubSeq(s, 1, Len(p)) = p

\* String.prototype.split('.') : the pieces between the dots, in order
RECURSIVE Split(_)
Split(s) ==
    IF \A i \in 1..Len(s) : s[i] # Dot
    THEN << s >>
    ELSE LET i == CHOOSE k \in 1..Len(s) : s[k] = Dot /\ \A j \in 1..(k-1) : s[j] # Dot
         IN  << SubSeq(s, 1, i - 1) >> \o Split(SubSeq(s, i + 1, Len(s)))

\* the template literal `${tool}.${method}`
CommandKey(tool, method) == tool \o << Dot >> \o method

MapDelete(m, ks) == [ k \in (DOMAIN m) \ ks |-> m[k] ]
MapSet(m, k, v) == [ x \in (DOMAIN m) \cup {k} |-> IF x = k THEN v ELSE m[x] ]
EmptyMap == [ x \in {} |-> Undefined ]

\* ================================================================ MCPServer
\* the payloads a register message can carry (payload: unknown, cast to MCPTool)
MethodLists == { << >>, << <<"m">> >>, << <<"n">> >>, << <<"m">>, <<"n">> >> }
\* kind "null": the payload is null; hasMethods = FALSE: tool.methods is undefined
NullTool == [ kind |-> "null", name |-> << >>, hasMethods |-> FALSE, methods |-> << >> ]
ToolPayloads ==
    [ kind : {"object"}, name : ToolNames, hasMethods : {TRUE}, methods : MethodLists ]
    \cup [ kind : {"object"}, name : ToolNames, hasMethods : {FALSE}, methods : { << >> } ]
    \cup { NullTool }
\* the payloads an unregister message can carry (cast to {toolName: string});
\* hasToolName = FALSE: payload.toolName is undefined
NullUnregister == [ kind |-> "null", hasToolName |-> FALSE, toolName |-> << >> ]
UnregisterPayloads ==
    [ kind : {"object"}, hasToolName : {TRUE}, toolName : ToolNames ]
    \cup { [ kind |-> "object", hasToolName |-> FALSE, toolName |-> << >> ] }
    \cup { NullUnregister }

\* the closure registerTool stores under a routing key, named by the
\* registration that created it
Handler(toolName, methodName) == [ tool |-> toolName, method |-> methodName ]
\* what Map.get gives for a key that is not in the table
NoHandler == [ tool |-> << >>, method |-> << >> ]

\* tool.methods.forEach(method => this.commandHandlers.set(commandKey, ...))
RECURSIVE SetHandlers(_, _, _)
SetHandlers(hs, toolName, methods) ==
    IF methods = << >> THEN hs
    ELSE SetHandlers(MapSet(hs, CommandKey(toolName, Head(methods)),
                            Handler(toolName, Head(methods))),
                     toolName, Tail(methods))

\* registerTool(tool): the tables afterwards, and whether it threw
RegisterTool(ts, hs, tool) ==
    IF tool.kind = "null"
    THEN \* tool.name on null throws before anything is stored
         [ tools |-> ts, handlers |-> hs, threw |-> TRUE ]
    ELSE IF ~tool.hasMethods
    THEN \* the tool is stored, then tool.methods.forEach throws
         [ tools |-> MapSet(ts, tool.name, tool), handlers |-> hs, threw |-> TRUE ]
    ELSE [ tools |-> MapSet(ts, tool.name, tool),
           handlers |-> SetHandlers(hs, tool.name, tool.methods),
           threw |-> FALSE ]

\* faulty variant of KeysToDelete: the routing entries are left in the table
KeysToDelete_Nothing(hs, toolName) == {}

\* the keys unregisterTool deletes: for every piece of toolName.split('.'),
\* every key that startsWith that piece
KeysToDelete(hs, toolName) ==
    { key \in DOMAIN hs :
        \E i \in 1..Len(Split(toolName)) : StartsWith(key, Split(toolName)[i]) }

\* unregisterTool(toolName): the tables afterwards, and whether it threw
UnregisterTool(ts, hs, toolName) ==
    [ tools |-> MapDelete(ts, {toolName}),
           handlers |-> MapDelete(hs, KeysToDelete(hs, toolName)),
 threw |-> FALSE ]

\* faulty variant of GetHandler: a key that is not in the table falls back to some
\* handler of the table
GetHandler_Fallback(hs, key) ==
    IF key \in DOMAIN hs THEN hs[key]
    ELSE IF DOMAIN hs # {} THEN hs[CHOOSE k \in DOMAIN hs : TRUE]
    ELSE NoHandler

\* this.commandHandlers.get(handlerKey)
GetHandler(hs, key) == IF key \in DOMAIN hs THEN hs[key] ELSE NoHandler

\* ---- the Responses the server builds (id and timestamp are never read)
NoError == [ code |-> Undefined, message |-> Undefined, key |-> << >>, details |-> Undefined ]
RegisteredResponse(id) ==
    [ commandId |-> id, success |-> TRUE, data |-> "registered:true", error |-> NoError ]
UnregisteredResponse(id) ==
    [ commandId |-> id, success |-> TRUE, data |-> "unregistered:true", error |-> NoError ]
NotFoundResponse(id, key) ==
    [ commandId |-> id, success |-> FALSE, data |-> Undefined,
      error |-> [ code |-> "HANDLER_NOT_FOUND", message |-> "No handler found for command: ",
                  key |-> key, details |-> Undefined ] ]
ResultResponse(id, result) ==
    [ commandId |-> id, success |-> TRUE, data |-> result, error |-> NoError ]

\* what `await handler(command)` can end with: the stub's value, another
\* value, a thrown Error (with its message), a thrown value that is no Error
StubResult == "success:true"
HandlerOutcomes ==
    { [ kind |-> "return", value |-> StubResult ],
      [ kind |-> "return", value |-> "result" ],
      [ kind |-> "throwError", value |-> "boom" ],
      [ kind |-> "throwOther", value |-> "raw" ] }

\* faulty variant of ErrorMessage: the message of the failure is never used
ErrorMessage_AlwaysUnknown(outcome) == "Unknown error"

\* error instanceof Error ? error.message : 'Unknown error'
ErrorMessage(outcome) ==
    IF outcome.kind = "throwError" THEN outcome.value ELSE "Unknown error"

ExecutionErrorResponse(id, outcome) ==
    [ commandId |-> id, success |-> FALSE, data |-> Undefined,
      error |-> [ code |-> "EXECUTION_ERROR", message |-> ErrorMessage(outcome),
                  key |-> << >>, details |-> outcome.value ] ]

\* the Response handleCommand sends once the handler has settled
CommandResponse(id, outcome) ==
    IF outcome.kind = "return"
    THEN ResultResponse(id, outcome.value)
    ELSE ExecutionErrorResponse(id, outcome)

\* private async sendResponse(response)
SendResponse(log, response) == Append(log, response)

ServerInit ==
    /\ tools = EmptyMap
    /\ commandHandlers = EmptyMap
    /\ running = {}
    /\ sent = << >>
    /\ inbound = << >>

\* faulty variant of Dispatches: a message waits for the handlers still running
Dispatches_OneAtATime(rs) == rs = {}
\* handleMessage is an async method that takes no lock and keeps no queue: a
\* call starts whatever the handlers of earlier calls (rs) are waiting for
Dispatches(rs) == TRUE

\* the id of the next inbound message (ids are unique per connection)
NextMsgId == Len(inbound) + 1

\* one handleMessage call: the message (type, tool / toolName, method, the
\* methods of a register payload), how far the call has got ("awaiting" the
\* handler, "returned", or "threw"), the handler it invoked and what that
\* handler ended with
NoOutcome == [ kind |-> "none", value |-> Undefined ]
Entry(id, type, tool, method, state) ==
    [ id |-> id, type |-> type, tool |-> tool, method |-> method,
      state |-> state, methods |-> << >>, handler |-> NoHandler, outcome |-> NoOutcome ]

\* handleMessage: case 'register' -> handleRegister
HandleRegister(payload) ==
    /\ Len(inbound) < MaxMsgs
    /\ Dispatches(running)
    /\ LET id == NextMsgId
           r  == RegisterTool(tools, commandHandlers, payload)
       IN  /\ tools' = r.tools
           /\ commandHandlers' = r.handlers
           /\ sent' = IF r.threw THEN sent ELSE SendResponse(sent, RegisteredResponse(id))
           /\ inbound' = Append(inbound,
                  [ Entry(id, "register", payload.name, << >>,
                          IF r.threw THEN "threw" ELSE "returned")
                    EXCEPT !.methods = payload.methods ])
    /\ UNCHANGED running
    /\ UNCHANGED <<clientVars, reconnVars, retryVars>>

\* handleMessage: case 'unregister' -> handleUnregister
HandleUnregister(payload) ==
    /\ Len(inbound) < MaxMsgs
    /\ Dispatches(running)
    /\ LET id == NextMsgId
           \* const { toolName } = message.payload throws on null;
           \* tools.delete(undefined) removes nothing, then toolName.split throws
           r  == IF payload.kind = "null" \/ ~payload.hasToolName
                 THEN [ tools |-> tools, handlers |-> commandHandlers, threw |-> TRUE ]
                 ELSE UnregisterTool(tools, commandHandlers, payload.toolName)
       IN  /\ tools' = r.tools
           /\ commandHandlers' = r.handlers
           /\ sent' = IF r.threw THEN sent ELSE SendResponse(sent, UnregisteredResponse(id))
           /\ inbound' = Append(inbound,
                  Entry(id, "unregister", payload.toolName, << >>, IF r.threw THEN "threw" ELSE "returned"))
    /\ UNCHANGED running
    /\ UNCHANGED <<clientVars, reconnVars, retryVars>>

\* handleMessage: case 'command' -> handleCommand, up to `await handler(command)`
HandleCommand(tool, method) ==
    /\ Len(inbound) < MaxMsgs
    /\ Dispatches(running)
    /\ LET id == NextMsgId
           handlerKey == CommandKey(tool, method)
           handler == GetHandler(commandHandlers, handlerKey)
       IN  IF handler = NoHandler
           THEN /\ sent' = SendResponse(sent, NotFoundResponse(id, handlerKey))
                /\ inbound' = Append(inbound, Entry(id, "command", tool, method, "returned"))
                /\ UNCHANGED running
           ELSE /\ running' = running \cup { [ id |-> id, handler |-> handler ] }
                /\ inbound' = Append(inbound,
                       [ Entry(id, "command", tool, method, "awaiting") EXCEPT !.handler = handler ])
                /\ UNCHANGED sent
    /\ UNCHANGED <<tools, commandHandlers>>
    /\ UNCHANGED <<clientVars, reconnVars, retryVars>>

\* handleCommand, from the handler's settling to the end (try / catch)
HandlerSettles(r, outcome) ==
    /\ r \in running
    /\ running' = running \ {r}
    /\ sent' = SendResponse(sent, CommandResponse(r.id, outcome))
    /\ inbound' = [ inbound EXCEPT ![r.id].state = "returned", ![r.id].outcome = outcome ]
    /\ UNCHANGED <<tools, commandHandlers>>
    /\ UNCHANGED <<clientVars, reconnVars, retryVars>>

\* handleMessage: case 'response' -> handleResponse; default -> logger.warn
OtherTypes == { "response", "event", "error" }
HandleOther(type) ==
    /\ Len(inbound) < MaxMsgs
    /\ Dispatches(running)
    /\ inbound' = Append(inbound, Entry(NextMsgId, type, << >>, << >>, "returned"))
    /\ UNCHANGED <<tools, commandHandlers, running, sent>>
    /\ UNCHANGED <<clientVars, reconnVars, retryVars>>

ServerNext ==
    \/ \E p \in ToolPayloads : HandleRegister(p)
    \/ \E p \in UnregisterPayloads : HandleUnregister(p)
    \/ \E t \in ToolNames, m \in MethodNames : HandleCommand(t, m)
    \/ \E r \in running, o \in HandlerOutcomes : HandlerSettles(r, o)
    \/ \E ty \in OtherTypes : HandleOther(ty)

\* ================================================================ MCPClient
\* ---- the messages the connection can hand to handleMessage
NoClientError == [ present |-> FALSE, message |-> Undefined ]
ClientError(msg) == [ present |-> TRUE, message |-> msg ]
\* success, data and error of a Response, well formed or not
Bodies ==
    { [ success |-> TRUE,  data |-> "d1",      error |-> NoClientError ],
      [ success |-> TRUE,  data |-> Undefined, error |-> ClientError("boom") ],
      [ success |-> FALSE, data |-> Undefined, error |-> ClientError("boom") ],
      [ success |-> FALSE, data |-> Undefined, error |-> ClientError("") ],
      [ success |-> FALSE, data |-> "d1",      error |-> NoClientError ] }
\* the three ways a message fails handleMessage's test for a Response
NotResponses ==
    { [ type |-> "event",    hasCommandId |-> TRUE,  hasSuccess |-> TRUE ],
      [ type |-> "response", hasCommandId |-> FALSE, hasSuccess |-> TRUE ],
      [ type |-> "response", hasCommandId |-> TRUE,  hasSuccess |-> FALSE ] }
\* message ids: 1..MaxCalls are the ids the client hands out, 0 is any other id
CommandIds == 0..MaxCalls
ClientMessages ==
    { [ type |-> "response", hasCommandId |-> TRUE, commandId |-> c,
        hasSuccess |-> TRUE, body |-> b ] : c \in CommandIds, b \in Bodies }
    \cup { [ type |-> sh.type, hasCommandId |-> sh.hasCommandId, commandId |-> c,
             hasSuccess |-> sh.hasSuccess,
             body |-> CHOOSE b \in Bodies : b.success /\ b.data = "d1" ] :
           sh \in NotResponses, c \in CommandIds }
NoResponse ==
    [ type |-> "none", hasCommandId |-> FALSE, commandId |-> 0, hasSuccess |-> FALSE,
      body |-> [ success |-> FALSE, data |-> Undefined, error |-> NoClientError ] ]

\* ---- the promise sendAndWaitForResponse returns
\* outcomes: the settlements that took effect, in order
PendingPromise ==
    [ state |-> "pending", response |-> NoResponse, error |-> Undefined, outcomes |-> << >> ]
\* faulty variant of Reject: a rejection that takes effect on a settled promise too
Reject_Unguarded(promise, error) ==
    [ promise EXCEPT !.state = "rejected", !.error = error,
                     !.outcomes = Append(@, error) ]

\* resolve(response) / reject(error) of a Promise: only the first call takes effect
Resolve(promise, response) ==
    IF promise.state = "pending"
    THEN [ promise EXCEPT !.state = "resolved", !.response = response,
                          !.outcomes = Append(@, "resolved") ]
    ELSE promise
Reject(promise, error) ==
    IF promise.state = "pending"
    THEN [ promise EXCEPT !.state = "rejected", !.error = error,
                          !.outcomes = Append(@, error) ]
    ELSE promise

TimeoutError == "Command timeout"
NotConnectedError == "Not connected to MCP server"
TransmitError == "transmit error"

\* faulty variant of ExecuteCommandResult: response.success is not looked at
ExecuteCommandResult_IgnoresSuccess(response) ==
    [ state |-> "returned", data |-> response.body.data, message |-> Undefined ]

\* ---- what the three public calls make of the settled promise
\* executeCommand, after the await
ExecuteCommandResult(response) ==
    IF ~response.body.success
    THEN \* throw new Error(response.error?.message || 'Command execution failed')
         [ state |-> "threw", data |-> Undefined,
           message |-> IF response.body.error.present /\ response.body.error.message # ""
                       THEN response.body.error.message
                       ELSE "Command execution failed" ]
    ELSE [ state |-> "returned", data |-> response.body.data, message |-> Undefined ]
\* registerTool / unregisterTool: await, then return nothing
VoidResult(response) == [ state |-> "returned", data |-> Undefined, message |-> Undefined ]
PendingResult == [ state |-> "pending", data |-> Undefined, message |-> Undefined ]
\* the caller's result once the promise has settled
CallResult(kind, promise) ==
    IF promise.state = "pending" THEN PendingResult
    ELSE IF promise.state = "rejected"
    THEN [ state |-> "threw", data |-> Undefined, message |-> promise.error ]
    ELSE IF kind = "command" THEN ExecuteCommandResult(promise.response)
    ELSE VoidResult(promise.response)

\* faulty variant of ArmTimer: no timer is started
ArmTimer_Never(ts, id) == ts
\* faulty variant of UntrackOnTimeout: the timer callback leaves the entry in the table
UntrackOnTimeout_Forgets(hs, id) == hs
\* faulty variant of UntrackOnResponse: the stored callback leaves its entry in the table
UntrackOnResponse_Forgets(hs, id) == hs
\* faulty variant of UntrackOnSendError: the catch callback leaves the entry in the table
UntrackOnSendError_Forgets(hs, id) == hs
\* faulty variant of FindHandler: the Response is given to the oldest tracked request
FindHandler_Oldest(hs, message) ==
    IF DOMAIN hs # {}
    THEN hs[CHOOSE k \in DOMAIN hs : \A j \in DOMAIN hs : k <= j]
    ELSE 0

\* ---- the bookkeeping of sendAndWaitForResponse and its three callbacks
\* setTimeout(..., 30000)
ArmTimer(ts, id) == ts \cup {id}
\* this.messageHandlers.set(message.id, ...)
TrackRequest(hs, id) == MapSet(hs, id, id)
\* the timer callback's this.messageHandlers.delete(message.id)
UntrackOnTimeout(hs, id) == MapDelete(hs, {id})
\* the response callback's this.messageHandlers.delete(message.id)
UntrackOnResponse(hs, id) == MapDelete(hs, {id})
\* the send .catch callback's this.messageHandlers.delete(message.id)
UntrackOnSendError(hs, id) == MapDelete(hs, {id})
\* handleMessage: this.messageHandlers.get(response.commandId); 0 when absent
FindHandler(hs, message) ==
    IF message.commandId \in DOMAIN hs THEN hs[message.commandId] ELSE 0
\* handleMessage's test that the message is a Response
IsResponse(message) ==
    message.type = "response" /\ message.hasCommandId /\ message.hasSuccess

\* kind: which continuation runs after the await, executeCommand's ("command")
\* or registerTool's / unregisterTool's ("tool")
\* whenFailed notes that the call was made after reconnection had been given up
NewCall(kind, promise) ==
    [ kind |-> kind, promise |-> promise, result |-> CallResult(kind, promise),
      late |-> FALSE, whenFailed |-> failed ]
SettleCall(call, promise) ==
    [ call EXCEPT !.promise = promise, !.result = CallResult(call.kind, promise) ]

\* ---- reconnection: handleDisconnect and the timer callback it starts
DefaultMaxReconnectAttempts == 5
MaxReconnectError == "Max reconnection attempts reached"

\* options.maxReconnectAttempts: absent, or the number given
NoOption == [ present |-> FALSE, value |-> 0 ]
Option(n) == [ present |-> TRUE, value |-> n ]
ReconnectOptions == { NoOption } \cup { Option(n) : n \in 0..MaxConfigured }

\* faulty variant of AttemptsAfterReconnect: the counter is left as it is
AttemptsAfterReconnect_Kept(attempts) == attempts

\* (this.options.maxReconnectAttempts || 5): undefined and 0 are both falsy
AttemptLimit(opt) ==
    IF opt.present /\ opt.value # 0 THEN opt.value ELSE DefaultMaxReconnectAttempts
\* handleDisconnect's test
MayReconnect(opt, attempts) == attempts < AttemptLimit(opt)
\* the callback's `this.reconnectAttempts = 0` after connect() returned
AttemptsAfterReconnect(attempts) == 0
\* disconnect(): if (this.reconnectTimeout) { clearTimeout(...); this.reconnectTimeout = null }
\* (clearing a timer that has fired does nothing)
ClearReconnectTimeout(t) == "null"

\* how the connect() calls made by reconnect callbacks have gone
NoAttempt == [ outcome |-> "none", failures |-> 0 ]
AttemptFailed(log) == [ outcome |-> "failed",
                        failures |-> IF log.outcome = "ok" THEN 1 ELSE log.failures + 1 ]
AttemptSucceeded(log) == [ outcome |-> "ok",
                           failures |-> IF log.outcome = "ok" THEN 0 ELSE log.failures ]

ClientInit ==
    /\ connection = FALSE
    /\ messageHandlers = EmptyMap
    /\ timers = {}
    /\ sending = {}
    /\ calls = EmptyMap

\* uuidv4(): an id no earlier message has
NextCallId == Cardinality(DOMAIN calls) + 1

\* faulty variant of SentOnConnect: every request still awaited is sent again
SentOnConnect_Pending(hs) == DOMAIN hs
\* the messages connect() hands to the new connection's send(): none; it
\* builds the connection object and registers its callbacks, nothing else
SentOnConnect(hs) == {}

\* connect(): stores the connection object; this.reconnectAttempts and the
\* reconnect timers are not touched
Connect ==
    /\ connection' = TRUE
    /\ failed' = FALSE
    /\ lastReconnect' = NoAttempt
    /\ sending' = sending \cup SentOnConnect(messageHandlers)
    /\ UNCHANGED <<messageHandlers, timers, calls>>
    /\ UNCHANGED <<options, reconnectAttempts, reconnectTimeout, strayTimers,
                   attempting, losses>>
    /\ UNCHANGED <<serverVars, retryVars>>

\* disconnect(): clearTimeout(this.reconnectTimeout), close, this.connection = null
Disconnect ==
    /\ reconnectTimeout' = ClearReconnectTimeout(reconnectTimeout)
    /\ connection' = FALSE
    /\ UNCHANGED <<messageHandlers, timers, sending, calls>>
    /\ UNCHANGED <<options, reconnectAttempts, strayTimers, attempting, failed,
                   lastReconnect, losses>>
    /\ UNCHANGED <<serverVars, retryVars>>

\* sendAndWaitForResponse's synchronous part, for a message with a fresh id
SendAndWaitForResponse(kind) ==
    /\ NextCallId <= MaxCalls
    /\ LET id == NextCallId
       IN  IF ~connection
           THEN \* throw new Error('Not connected to MCP server')
                /\ calls' = MapSet(calls, id, NewCall(kind, Reject(PendingPromise, NotConnectedError)))
                /\ UNCHANGED <<messageHandlers, timers, sending>>
           ELSE /\ timers' = ArmTimer(timers, id)
                /\ messageHandlers' = TrackRequest(messageHandlers, id)
                /\ sending' = sending \cup {id}
                /\ calls' = MapSet(calls, id, NewCall(kind, PendingPromise))
    /\ UNCHANGED connection
    /\ UNCHANGED <<serverVars, reconnVars, retryVars>>

\* registerTool(tool), up to the await
ClientRegisterTool == SendAndWaitForResponse("tool")
\* unregisterTool(toolName), up to the await
ClientUnregisterTool == SendAndWaitForResponse("tool")
\* executeCommand(tool, method, params), up to the await
ExecuteCommand == SendAndWaitForResponse("command")

\* connection.send(message) resolves: nothing is attached to that
SendResolves(id) ==
    /\ id \in sending
    /\ sending' = sending \ {id}
    /\ UNCHANGED <<connection, messageHandlers, timers, calls>>
    /\ UNCHANGED <<serverVars, reconnVars, retryVars>>

\* connection.send(message) rejects (an MCPConnection may, e.g. the socket is
\* not open or the write fails later): the .catch callback
SendRejects(id) ==
    /\ id \in sending
    /\ sending' = sending \ {id}
    /\ timers' = timers \ {id}
    /\ messageHandlers' = UntrackOnSendError(messageHandlers, id)
    /\ calls' = [ calls EXCEPT ![id] = SettleCall(@, Reject(@.promise, TransmitError)) ]
    /\ UNCHANGED connection
    /\ UNCHANGED <<serverVars, reconnVars, retryVars>>

\* the 30 s timer of request id fires; the deadline is the moment this callback
\* runs, which can be any moment at which the timer is still armed
Timeout(id) ==
    /\ id \in timers
    /\ timers' = timers \ {id}
    /\ messageHandlers' = UntrackOnTimeout(messageHandlers, id)
    /\ calls' = [ calls EXCEPT ![id] = SettleCall(@, Reject(@.promise, TimeoutError)) ]
    /\ UNCHANGED <<connection, sending>>
    /\ UNCHANGED <<serverVars, reconnVars, retryVars>>

\* handleMessage(message)
HandleMessage(message) ==
    /\ LET handler == IF IsResponse(message) THEN FindHandler(messageHandlers, message) ELSE 0
       IN  IF handler # 0
           THEN \* the callback stored by the call with id `handler`
                /\ timers' = timers \ {handler}
                /\ messageHandlers' = UntrackOnResponse(messageHandlers, handler)
                /\ calls' = [ calls EXCEPT ![handler] = SettleCall(@, Resolve(@.promise, message)) ]
           ELSE \* no callback: the message is dropped; `late` notes a Response
                \* that names a call which is no longer tracked
                /\ calls' = IF IsResponse(message) /\ message.commandId \in DOMAIN calls
                            THEN [ calls EXCEPT ![message.commandId].late = TRUE ]
                            ELSE calls
                /\ UNCHANGED <<messageHandlers, timers>>
    /\ UNCHANGED <<connection, sending>>
    /\ UNCHANGED <<serverVars, reconnVars, retryVars>>

\* the body of handleDisconnect(): schedule one more attempt, or give up.
\* A timer that this.reconnectTimeout referred to and that is still armed stays
\* armed when the field is overwritten.
HandleDisconnectBody ==
    IF MayReconnect(options, reconnectAttempts)
    THEN /\ reconnectAttempts' = reconnectAttempts + 1
         /\ strayTimers' = IF reconnectTimeout = "armed" THEN strayTimers + 1 ELSE strayTimers
         /\ reconnectTimeout' = "armed"
         /\ UNCHANGED failed
    ELSE \* throw new Error('Max reconnection attempts reached')
         /\ failed' = TRUE
         /\ UNCHANGED <<reconnectAttempts, reconnectTimeout, strayTimers>>

\* handleDisconnect(), called because the link of the present connection was lost
LinkLost ==
    /\ connection
    /\ losses < MaxLosses
    /\ losses' = losses + 1
    /\ HandleDisconnectBody
    /\ UNCHANGED <<options, attempting, lastReconnect>>
    /\ UNCHANGED <<clientVars, serverVars, retryVars>>

\* the timer this.reconnectTimeout refers to fires: the callback calls connect()
ReconnectTimerFires ==
    /\ reconnectTimeout = "armed"
    /\ reconnectTimeout' = "fired"
    /\ attempting' = attempting + 1
    /\ UNCHANGED <<options, reconnectAttempts, strayTimers, failed, lastReconnect, losses>>
    /\ UNCHANGED <<clientVars, serverVars, retryVars>>

\* an armed timer the field no longer refers to fires: the same callback
StrayTimerFires ==
    /\ strayTimers > 0
    /\ strayTimers' = strayTimers - 1
    /\ attempting' = attempting + 1
    /\ UNCHANGED <<options, reconnectAttempts, reconnectTimeout, failed, lastReconnect, losses>>
    /\ UNCHANGED <<clientVars, serverVars, retryVars>>

\* the callback's `await this.connect()` returns: this.reconnectAttempts = 0
ReconnectSucceeds ==
    /\ attempting > 0
    /\ attempting' = attempting - 1
    /\ connection' = TRUE
    /\ reconnectAttempts' = AttemptsAfterReconnect(reconnectAttempts)
    /\ failed' = FALSE
    /\ lastReconnect' = AttemptSucceeded(lastReconnect)
    /\ sending' = sending \cup SentOnConnect(messageHandlers)
    /\ UNCHANGED <<options, reconnectTimeout, strayTimers, losses>>
    /\ UNCHANGED <<messageHandlers, timers, calls>>
    /\ UNCHANGED <<serverVars, retryVars>>

\* the callback's `await this.connect()` throws (a connect() that reaches for a
\* transport can; the present one cannot): catch, await this.handleDisconnect()
ReconnectFails ==
    /\ attempting > 0
    /\ attempting' = attempting - 1
    /\ lastReconnect' = AttemptFailed(lastReconnect)
    /\ HandleDisconnectBody
    /\ UNCHANGED <<options, losses>>
    /\ UNCHANGED <<clientVars, serverVars, retryVars>>

\* ================================================================ withRetry
DefaultMaxRetries == 3
DefaultRetryDelay == 1000
DefaultRetryableStatusCodes == { 429, 500, 502, 503, 504 }
defaultRetryConfig ==
    [ maxRetries |-> DefaultMaxRetries, retryDelay |-> DefaultRetryDelay,
      retryableStatusCodes |-> DefaultRetryableStatusCodes ]
\* the configurations withRetry is called with
RetryConfigs ==
    [ maxRetries : 0..MaxRetries,
      retryDelay : { DefaultRetryDelay, 2000 },
      retryableStatusCodes : { DefaultRetryableStatusCodes, { 429 } } ]

\* ---- how one invocation of operation() can end; n is the invocation's
\* number, which tells its value or error from those of the other invocations
HttpStatuses == { 404, 429, 500, 503 }
ErrorClasses == { "MCPRequestError", "MCPError", "MCPAuthenticationError",
                  "MCPValidationError", "Error" }
NoInvocation ==
    [ ok |-> FALSE, class |-> "none", code |-> "none", hasStatus |-> FALSE, status |-> 0, n |-> 0 ]
Value(n) ==
    [ ok |-> TRUE, class |-> "none", code |-> "none", hasStatus |-> FALSE, status |-> 0, n |-> n ]
\* new MCPRequestError('REQUEST_ERROR', message, status?)
RequestError(n, hasStatus, status) ==
    [ ok |-> FALSE, class |-> "MCPRequestError", code |-> "REQUEST_ERROR",
      hasStatus |-> hasStatus, status |-> status, n |-> n ]
\* the errors that are no MCPRequestError: they have no status field
OtherError(n, class) ==
    [ ok |-> FALSE, class |-> class,
      code |-> IF class = "MCPAuthenticationError" THEN "AUTH_ERROR"
               ELSE IF class = "MCPValidationError" THEN "VALIDATION_ERROR"
               ELSE IF class = "MCPError" THEN "MCP_ERROR" ELSE "none",
      hasStatus |-> FALSE, status |-> 0, n |-> n ]
OperationOutcomes ==
    { Value(0), RequestError(0, FALSE, 0) }
    \cup { RequestError(0, TRUE, st) : st \in HttpStatuses }
    \cup { OtherError(0, c) : c \in ErrorClasses \ { "MCPRequestError" } }

\* faulty variant of Succeeded: the value of the invocation is not returned
Succeeded_Never(outcome) == FALSE
\* faulty variant of StatusIsRetryable: the status is not looked at
StatusIsRetryable_Always(cfg, error) == TRUE
\* faulty variant of BackoffDelay: every wait is the base delay
BackoffDelay_Constant(cfg, a) == cfg.retryDelay
\* faulty variant of IsLastAttempt: the loop gives up one attempt early
IsLastAttempt_OneEarly(cfg, a) == a + 1 >= cfg.maxRetries

\* ---- the tests of the loop
\* `return await operation()` returned a value
Succeeded(outcome) == outcome.ok
\* error instanceof MCPRequestError
IsRequestError(error) == error.class = "MCPRequestError"
\* error.status || 0
StatusOrZero(error) == IF error.hasStatus /\ error.status # 0 THEN error.status ELSE 0
\* config.retryableStatusCodes.includes(error.status || 0)
StatusIsRetryable(cfg, error) == StatusOrZero(error) \in cfg.retryableStatusCodes
\* attempt === config.maxRetries
IsLastAttempt(cfg, a) == a = cfg.maxRetries
\* attempt <= config.maxRetries
LoopContinues(cfg, a) == a <= cfg.maxRetries
\* config.retryDelay * (attempt + 1)
BackoffDelay(cfg, a) == cfg.retryDelay * (a + 1)

\* withRetry has not been called
RetryIdle ==
    /\ config = defaultRetryConfig
    /\ attempt = 0
    /\ pc = "idle"
    /\ invocations = << >>
    /\ waits = << >>
    /\ retryResult = NoInvocation
    /\ requests = << >>

\* withRetry(operation, cfg): lastError = null, attempt = 0, the loop's first test
WithRetry(cfg) ==
    /\ pc = "idle"
    /\ config' = cfg
    /\ attempt' = 0
    /\ pc' = IF LoopContinues(cfg, 0) THEN "call" ELSE "threw"
    /\ UNCHANGED <<invocations, waits, retryResult, requests>>
    /\ UNCHANGED <<serverVars, clientVars, reconnVars>>

\* one pass through the try / catch, operation() having ended as `o` says
TryOperation(o) ==
    /\ pc = "call"
    /\ LET outcome == [ o EXCEPT !.n = Len(invocations) + 1 ]
       IN
       /\ invocations' = Append(invocations, outcome)
       /\ IF Succeeded(outcome)
          THEN /\ pc' = "returned"
               /\ retryResult' = outcome
               /\ UNCHANGED waits
          ELSE IF \/ ~IsRequestError(outcome)
                  \/ ~StatusIsRetryable(config, outcome)
                  \/ IsLastAttempt(config, attempt)
          THEN \* throw error
               /\ pc' = "threw"
               /\ retryResult' = outcome
               /\ UNCHANGED waits
          ELSE \* await new Promise(resolve => setTimeout(resolve, delay))
               /\ pc' = "wait"
               /\ waits' = Append(waits, BackoffDelay(config, attempt))
               /\ UNCHANGED retryResult
    /\ UNCHANGED <<config, attempt>>
    /\ UNCHANGED <<serverVars, clientVars, reconnVars>>

\* the loop invokes an operation that ends as `o` says
Invoke(o) ==
    /\ TryOperation(o)
    /\ UNCHANGED requests

\* the delay has passed: attempt++, the loop's test; after the loop, throw lastError
WaitEnds ==
    /\ pc = "wait"
    /\ attempt' = attempt + 1
    /\ IF LoopContinues(config, attempt + 1)
       THEN /\ pc' = "call"
            /\ UNCHANGED retryResult
       ELSE /\ pc' = "threw"
            /\ retryResult' = invocations[Len(invocations)]
    /\ UNCHANGED <<config, invocations, waits, requests>>
    /\ UNCHANGED <<serverVars, clientVars, reconnVars>>

RetryNext ==
    \/ \E cfg \in RetryConfigs : WithRetry(cfg)
    \/ \E o \in OperationOutcomes : Invoke(o)
    \/ WaitEnds

\* ================================================================ HTTP client
\* options.retryConfig of the MCPClient of core/: absent, or the one given
NoRetryOption == [ present |-> FALSE, value |-> defaultRetryConfig ]
RetryOption(cfg) == [ present |-> TRUE, value |-> cfg ]
RetryOptions == { NoRetryOption } \cup { RetryOption(cfg) : cfg \in RetryConfigs }
\* the constructor's this.retryConfig = options.retryConfig || { maxRetries: 3, ... }
ClientRetryConfig(opt) ==
    IF opt.present THEN opt.value
    ELSE [ maxRetries |-> 3, retryDelay |-> 1000,
           retryableStatusCodes |-> { 429, 500, 502, 503, 504 } ]

\* how axiosInstance.request(config) can end: a response whose status passes
\* validateStatus; an AxiosError with the response that failed it; an
\* AxiosError without response (no answer, timeout); anything else thrown
AxiosResponse == [ kind |-> "response", hasResponse |-> TRUE, status |-> 200 ]
AxiosError(hasResponse, status) ==
    [ kind |-> "axiosError", hasResponse |-> hasResponse, status |-> status ]
OtherThrown == [ kind |-> "error", hasResponse |-> FALSE, status |-> 0 ]
AxiosOutcomes ==
    { AxiosResponse, AxiosError(FALSE, 0), OtherThrown }
    \cup { AxiosError(TRUE, st) : st \in HttpStatuses }

\* faulty variant of MakeRequest: the error's own status field is read, which
\* an AxiosError does not have
MakeRequest_DropsStatus(a) ==
    IF a.kind = "response" THEN Value(0)
    ELSE IF a.kind = "axiosError" THEN RequestError(0, FALSE, 0)
    ELSE OtherError(0, "Error")

\* makeRequest: the response, or new MCPRequestError('REQUEST_ERROR',
\* error.message, error.response?.status, ...) for an AxiosError, or the
\* error as it is
MakeRequest(a) ==
    IF a.kind = "response" THEN Value(0)
    ELSE IF a.kind = "axiosError" THEN RequestError(0, a.hasResponse, a.status)
    ELSE OtherError(0, "Error")

\* request(method, url, ...), which get / post / put / delete call:
\* withRetry(makeRequest, this.retryConfig)
Request(opt) == WithRetry(ClientRetryConfig(opt))

\* the loop invokes makeRequest, whose axiosInstance.request ends as `a` says
HttpAttempt(a) ==
    /\ TryOperation(MakeRequest(a))
    /\ requests' = Append(requests, a)

HttpNext ==
    \/ \E opt \in RetryOptions : Request(opt)
    \/ \E a \in AxiosOutcomes : HttpAttempt(a)
    \/ WaitEnds

\* ================================================================ specifications
\* the parts that stay as constructed while another part is checked
ClientIdle ==
    /\ connection = FALSE
    /\ messageHandlers = EmptyMap
    /\ timers = {}
    /\ sending = {}
    /\ calls = EmptyMap
\* new MCPClient({serverUrl}): no reconnect option, nothing scheduled
ReconnectIdle ==
    /\ options = NoOption
    /\ reconnectAttempts = 0
    /\ reconnectTimeout = "null"
    /\ strayTimers = 0
    /\ attempting = 0
    /\ failed = FALSE
    /\ lastReconnect = NoAttempt
    /\ losses = 0
\* new MCPClient({serverUrl, maxReconnectAttempts?})
ReconnectInit ==
    /\ options \in ReconnectOptions
    /\ reconnectAttempts = 0
    /\ reconnectTimeout = "null"
    /\ strayTimers = 0
    /\ attempting = 0
    /\ failed = FALSE
    /\ lastReconnect = NoAttempt
    /\ losses = 0

\* ---- MCPServer alone
InitServer == ServerInit /\ ClientIdle /\ ReconnectIdle /\ RetryIdle

SpecServer == InitServer /\ [][ServerNext]_vars

\* ---- withRetry alone
InitRetry == ServerInit /\ ClientIdle /\ ReconnectIdle /\ RetryIdle

SpecRetry == InitRetry /\ [][RetryNext]_vars

\* ---- the HTTP client's request() alone
InitHttp == ServerInit /\ ClientIdle /\ ReconnectIdle /\ RetryIdle

SpecHttp == InitHttp /\ [][HttpNext]_vars

\* ---- MCPClient's reconnect logic alone: no call is made
InitReconnect == ServerInit /\ ClientInit /\ ReconnectInit /\ RetryIdle

NextReconnect ==
    \/ Connect
    \/ Disconnect
    \/ LinkLost
    \/ ReconnectTimerFires
    \/ StrayTimerFires
    \/ ReconnectSucceeds
    \/ ReconnectFails

SpecReconnect == InitReconnect /\ [][NextReconnect]_vars

\* ---- MCPClient's reconnect logic with calls being made; no Response arrives
InitSession == ServerInit /\ ClientInit /\ ReconnectInit /\ RetryIdle

NextSession ==
    \/ Connect
    \/ Disconnect
    \/ LinkLost
    \/ ReconnectTimerFires
    \/ StrayTimerFires
    \/ ReconnectSucceeds
    \/ ReconnectFails
    \/ ClientRegisterTool
    \/ ClientUnregisterTool
    \/ ExecuteCommand
    \/ \E id \in 1..MaxCalls : SendResolves(id)
    \/ \E id \in 1..MaxCalls : SendRejects(id)
    \/ \E id \in 1..MaxCalls : Timeout(id)

SpecSession == InitSession /\ [][NextSession]_vars

\* ---- commands sent over a connection that is lost and established again
InitDelivery == ServerInit /\ ClientInit /\ ReconnectInit /\ RetryIdle

NextDelivery ==
    \/ Connect
    \/ Disconnect
    \/ LinkLost
    \/ ReconnectTimerFires
    \/ StrayTimerFires
    \/ ReconnectSucceeds
    \/ ReconnectFails
    \/ ExecuteCommand
    \/ \E id \in 1..MaxCalls : SendResolves(id)
    \/ \E id \in 1..MaxCalls : SendRejects(id)
    \/ \E id \in 1..MaxCalls : Timeout(id)

SpecDelivery == InitDelivery /\ [][NextDelivery]_vars

\* ---- MCPClient's correlator with any connection behind it
Init == ClientInit /\ ServerInit /\ ReconnectIdle /\ RetryIdle

Next ==
    \/ Connect
    \/ Disconnect
    \/ ClientRegisterTool
    \/ ClientUnregisterTool
    \/ ExecuteCommand
    \/ \E id \in 1..MaxCalls : SendResolves(id)
    \/ \E id \in 1..MaxCalls : SendRejects(id)
    \/ \E id \in 1..MaxCalls : Timeout(id)
    \/ \E m \in ClientMessages : HandleMessage(m)

Spec == Init /\ [][Next]_vars

\* the timer of every request eventually fires unless it is cleared
SpecLive == Spec /\ \A id \in 1..MaxCalls : WF_vars(Timeout(id))

\* ---- MCPClient and MCPServer as connect() joins them: the connection object
\* connect() builds logs what it is asked to send and hands it to nothing, its
\* send() always resolves, and its onMessage() drops the callback, so
\* MCPClient.handleMessage is never called; nothing calls
\* MCPServer.handleMessage either (WebSocketTransport.handleMessage only logs)
NextEndToEnd ==
    \/ Connect
    \/ Disconnect
    \/ ClientRegisterTool
    \/ ClientUnregisterTool
    \/ ExecuteCommand
    \/ \E id \in 1..MaxCalls : SendResolves(id)
    \/ \E id \in 1..MaxCalls : Timeout(id)

SpecEndToEnd == Init /\ [][NextEndToEnd]_vars

\* ================================================================ server claims
ResponsesTo(id) == { i \in 1..Len(sent) : sent[i].commandId = id }
Last(q) == q[Len(q)]
\* this step is a handleMessage call for a message of the given type
Handles(type) ==
    /\ Len(inbound') = Len(inbound) + 1
    /\ Last(inbound').type = type

\* C1: unregister(nameA) removes no routing entry of another registered
\* tool, also when nameA is a prefix of the other tool's name.
C1_PrefixSafety ==
    [][ \A key \in DOMAIN commandHandlers :
          ( /\ Handles("unregister")
            /\ Last(inbound').tool \in DOMAIN tools
            /\ commandHandlers[key].tool \in DOMAIN tools
            /\ commandHandlers[key].tool # Last(inbound').tool )
          => ( /\ key \in DOMAIN commandHandlers'
               /\ commandHandlers'[key] = commandHandlers[key] ) ]_vars

\* C6: every register, unregister or command message handleMessage has
\* finished with has exactly one Response carrying its id, and a message
\* whose handler is still running has none yet.
C6_ExactlyOneResponse ==
    \A i \in 1..Len(inbound) :
        inbound[i].type \in {"register", "unregister", "command"}
        => IF inbound[i].state = "awaiting"
           THEN ResponsesTo(i) = {}
           ELSE Cardinality(ResponsesTo(i)) = 1

\* C7: a command whose routing key is not in the registry is answered
\* success=false / HANDLER_NOT_FOUND, invokes no handler and leaves the
\* registry unchanged.
C7_HandlerNotFound ==
    [][ ( /\ Handles("command")
          /\ CommandKey(Last(inbound').tool, Last(inbound').method)
                 \notin DOMAIN commandHandlers )
        => ( /\ Len(sent') = Len(sent) + 1
             /\ SubSeq(sent', 1, Len(sent)) = sent
             /\ Last(sent').commandId = Last(inbound').id
             /\ Last(sent').success = FALSE
             /\ Last(sent').error.code = "HANDLER_NOT_FOUND"
             /\ Last(inbound').handler = NoHandler
             /\ Last(inbound').state = "returned"
             /\ running' = running
             /\ tools' = tools
             /\ commandHandlers' = commandHandlers ) ]_vars

\* C7 witness: a command was answered HANDLER_NOT_FOUND while the registry
\* held handlers of other keys.
C7_Witness ==
    \E i \in 1..Len(inbound) :
        /\ inbound[i].type = "command"
        /\ inbound[i].handler = NoHandler
        /\ DOMAIN commandHandlers # {}
        /\ \E j \in ResponsesTo(i) : sent[j].error.code = "HANDLER_NOT_FOUND"

\* the step in which the handler of command r settles with a failure
HandlerFailed(r) ==
    /\ r \in running /\ r \notin running'
    /\ inbound'[r.id].outcome.kind \in {"throwError", "throwOther"}

\* what C8 says of every failed handler, apart from the error message
FailureAnswered(r) ==
    /\ Len(sent') = Len(sent) + 1
    /\ SubSeq(sent', 1, Len(sent)) = sent
    /\ Last(sent').commandId = r.id
    /\ Last(sent').success = FALSE
    /\ Last(sent').error.code = "EXECUTION_ERROR"
    /\ inbound'[r.id].state = "returned"
    /\ tools' = tools
    /\ commandHandlers' = commandHandlers

\* C8 as stated: a failed handler is answered success=false /
\* EXECUTION_ERROR, the error message is the failure's, the failure does not
\* escape handleMessage and the registry is unchanged.
C8_ExecutionError ==
    [][ \A r \in running :
          HandlerFailed(r)
          => ( /\ FailureAnswered(r)
               /\ Last(sent').error.message = inbound'[r.id].outcome.value ) ]_vars

\* C8 amended: the error message is the failure's message when the failure
\* is an Error, and the fixed text 'Unknown error' when it is any other value.
C8_ExecutionErrorAmended ==
    [][ \A r \in running :
          HandlerFailed(r)
          => ( /\ FailureAnswered(r)
               /\ inbound'[r.id].outcome.kind = "throwError"
                    => Last(sent').error.message = inbound'[r.id].outcome.value
               /\ inbound'[r.id].outcome.kind = "throwOther"
                    => Last(sent').error.message = "Unknown error" ) ]_vars

\* C8 witness: handlers have failed both with an Error and with another value,
\* and each failure has been answered.
C8_Witness ==
    /\ \E i \in 1..Len(inbound) :
          inbound[i].outcome.kind = "throwError" /\ ResponsesTo(i) # {}
    /\ \E i \in 1..Len(inbound) :
          inbound[i].outcome.kind = "throwOther" /\ ResponsesTo(i) # {}

\* the register message that last set tool t before message i, if the tool
\* has not been unregistered since: 0 when there is none
RegisteredBy(i, t) ==
    LET about == { j \in 1..(i-1) :
                     /\ inbound[j].type \in {"register", "unregister"}
                     /\ inbound[j].tool = t }
        last == IF about = {} THEN 0 ELSE CHOOSE j \in about : \A k \in about : k <= j
    IN  IF last # 0 /\ inbound[last].type = "register"
           /\ \E k \in ResponsesTo(last) : sent[k].success
        THEN last ELSE 0

HasMethod(j, m) == \E k \in 1..Len(inbound[j].methods) : inbound[j].methods[k] = m

\* C9: a command for a method of a tool whose register message was answered
\* success=true, and that has not been unregistered since, finds a handler and
\* invokes it, and is answered success=true with the handler's result as data.
C9_RegistrationVisible ==
    \A i \in 1..Len(inbound) :
        ( /\ inbound[i].type = "command"
          /\ RegisteredBy(i, inbound[i].tool) # 0
          /\ HasMethod(RegisteredBy(i, inbound[i].tool), inbound[i].method) )
        => /\ inbound[i].handler # NoHandler
           /\ inbound[i].outcome.kind = "return"
                => \E k \in ResponsesTo(i) :
                      sent[k].success /\ sent[k].data = inbound[i].outcome.value

\* ================================================================ client claims
Promise(id) == calls[id].promise
TimedOut(id) == Promise(id).state = "rejected" /\ Promise(id).error = TimeoutError

\* C2: a call is resolved only with a Response whose commandId is the call's
\* own message id, and exactly once, whatever the order of arrival.
C2_CorrelationUniqueness ==
    \A id \in DOMAIN calls :
        Promise(id).state = "resolved"
        => /\ IsResponse(Promise(id).response)
           /\ Promise(id).response.commandId = id
           /\ Promise(id).outcomes = << "resolved" >>

\* C2 witness: two calls were outstanding together and the later one has
\* been resolved first, with its own Response.
C2_Witness ==
    /\ {1, 2} \subseteq DOMAIN calls
    /\ Promise(1).state = "pending" /\ 1 \in DOMAIN messageHandlers
    /\ Promise(2).state = "resolved" /\ Promise(2).response.commandId = 2

\* the timer of request id ends in this step, and neither a Response nor a
\* send failure ended it
TimerExpires(id) ==
    /\ id \in timers /\ id \notin timers'
    /\ sending' = sending
    /\ calls'[id].promise.state # "resolved"

\* C3: when the deadline passes the request fails with the timeout and is
\* no longer tracked; a Response that names a request which is not tracked is
\* dropped and changes nothing else; a timed-out call stays timed out.
C3_TimeoutBoundary ==
    [][ \A id \in DOMAIN calls :
          /\ TimerExpires(id)
               => ( /\ calls'[id].promise.state = "rejected"
                    /\ calls'[id].promise.error = TimeoutError
                    /\ calls'[id].result.state = "threw"
                    /\ id \notin DOMAIN messageHandlers' )
          /\ ( ~calls[id].late /\ calls'[id].late )
               => ( /\ id \notin DOMAIN messageHandlers
                    /\ calls' = [ calls EXCEPT ![id].late = TRUE ]
                    /\ UNCHANGED <<messageHandlers, timers, sending, connection>> )
          /\ TimedOut(id)
               => ( /\ calls'[id].promise = calls[id].promise
                    /\ calls'[id].result = calls[id].result
                    /\ id \notin DOMAIN messageHandlers' ) ]_vars

\* C3 witness: a call has timed out, a Response naming it has arrived
\* afterwards, and another request is still pending.
C3_Witness ==
    \E id \in DOMAIN calls, other \in DOMAIN messageHandlers :
        /\ TimedOut(id) /\ calls[id].late
        /\ other # id /\ Promise(other).state = "pending"

\* C4: every call has had at most one outcome, its state is that outcome,
\* and no id is tracked twice or for a call that already has its outcome.
C4_SingleOutcome ==
    /\ \A id \in DOMAIN calls :
          /\ Len(Promise(id).outcomes) <= 1
          /\ Promise(id).state = "pending" <=> Promise(id).outcomes = << >>
          /\ Promise(id).state = "resolved" => Promise(id).outcomes = << "resolved" >>
          /\ Promise(id).state = "rejected" => Promise(id).outcomes = << Promise(id).error >>
          /\ Cardinality({ k \in DOMAIN messageHandlers : messageHandlers[k] = id }) <= 1
    /\ \A k \in DOMAIN messageHandlers :
          /\ messageHandlers[k] \in DOMAIN calls
          /\ Promise(messageHandlers[k]).state = "pending"

\* C4 witness: one call was resolved and a second Response for it arrived
\* later, another call failed on transmission.
C4_Witness ==
    \E a \in DOMAIN calls, b \in DOMAIN calls :
        /\ Promise(a).state = "resolved" /\ calls[a].late /\ a \notin sending
        /\ Promise(b).state = "rejected" /\ Promise(b).error = TransmitError

\* C5: every call that has been made eventually has an outcome.
C5_EventuallySettles ==
    \A id \in 1..MaxCalls :
        (id \in DOMAIN calls) ~> (id \in DOMAIN calls /\ Promise(id).state # "pending")

\* C5 witness: every call the bound allows has been made and has settled,
\* one by its Response and one by the timeout after a send that went through.
C5_Witness ==
    /\ DOMAIN calls = 1..MaxCalls
    /\ \A id \in DOMAIN calls : Promise(id).state # "pending"
    /\ \E id \in DOMAIN calls : Promise(id).state = "resolved"
    /\ \E id \in DOMAIN calls : TimedOut(id) /\ id \notin sending

\* an executeCommand call that has received its Response
Answered(id) == calls[id].kind = "command" /\ Promise(id).state = "resolved"
Body(id) == Promise(id).response.body

\* what C10 says of a successful Response
ReturnsData(id) ==
    Body(id).success
    => /\ calls[id].result.state = "returned"
       /\ calls[id].result.data = Body(id).data

\* C10 as stated, for the Responses that carry an error: a success=false
\* Response makes the call fail with the message of the Response's error, a
\* success=true Response makes it return the Response's data.
C10_MirrorsResponse ==
    \A id \in DOMAIN calls :
        ( Answered(id) /\ (Body(id).success \/ Body(id).error.present) )
        => /\ ReturnsData(id)
           /\ ~Body(id).success
                => /\ calls[id].result.state = "threw"
                   /\ calls[id].result.message = Body(id).error.message

\* C10 amended: on success=false the call fails with the message of the
\* Response's error, or with 'Command execution failed' when the Response has
\* no error or its message is empty; on success=true it returns the data.
C10_MirrorsResponseAmended ==
    \A id \in DOMAIN calls :
        Answered(id)
        => /\ ReturnsData(id)
           /\ ~Body(id).success
                => /\ calls[id].result.state = "threw"
                   /\ calls[id].result.data = Undefined
                   /\ ( Body(id).error.present /\ Body(id).error.message # "" )
                        => calls[id].result.message = Body(id).error.message
                   /\ ~( Body(id).error.present /\ Body(id).error.message # "" )
                        => calls[id].result.message = "Command execution failed"

\* C10 witness: one executeCommand call has failed with the message of its
\* Response, another has returned the data of its Response.
C10_Witness ==
    \E a \in DOMAIN calls, b \in DOMAIN calls :
        /\ Answered(a) /\ ~Body(a).success /\ calls[a].result.message = "boom"
        /\ Answered(b) /\ Body(b).success /\ calls[b].result.data = "d1"

\* ================================================================ end-to-end claim
\* an executeCommand call that was made on a connected client and has ended
CommandEnded(id) ==
    /\ calls[id].kind = "command"
    /\ calls[id].result.state # "pending"
    /\ ~( Promise(id).state = "rejected" /\ Promise(id).error = NotConnectedError )
\* the server has answered a command with HANDLER_NOT_FOUND
NotFoundAnswered ==
    \E i \in 1..Len(inbound) :
        /\ inbound[i].type = "command"
        /\ \E k \in ResponsesTo(inbound[i].id) : sent[k].error.code = "HANDLER_NOT_FOUND"

\* C11: when the server has no tool registered, an executeCommand call made on
\* a connected client ends only after the command has reached the server's
\* dispatcher and been answered HANDLER_NOT_FOUND, and it ends by failing with
\* the message of that Response, not with the timeout.
C11_EndToEnd ==
    \A id \in DOMAIN calls :
        ( CommandEnded(id) /\ commandHandlers = EmptyMap )
        => /\ NotFoundAnswered
           /\ calls[id].result.state = "threw"
           /\ calls[id].result.message = NotFoundResponse(id, << >>).error.message

\* ================================================================ transmit failure
\* the send of request id ends in this step and the call, pending until then,
\* does not stay as it was: the send has rejected
SendFailed(id) ==
    /\ id \in sending /\ id \notin sending'
    /\ Promise(id).state = "pending"
    /\ calls'[id] # calls[id]
TransmitFailed(id) == Promise(id).state = "rejected" /\ Promise(id).error = TransmitError

\* C12: when the send of a pending request rejects, the call fails at once
\* with the transmit error, its timer is cleared and its id is no longer
\* tracked; afterwards the outcome stays the transmit error and the timer
\* stays cleared, so no timeout follows.
C12_TransmitFailure ==
    [][ \A id \in DOMAIN calls :
          /\ SendFailed(id)
               => ( /\ calls'[id].promise.state = "rejected"
                    /\ calls'[id].promise.error = TransmitError
                    /\ calls'[id].promise.outcomes = << TransmitError >>
                    /\ calls'[id].result.state = "threw"
                    /\ calls'[id].result.message = TransmitError
                    /\ id \notin timers'
                    /\ id \notin DOMAIN messageHandlers' )
          /\ TransmitFailed(id)
               => ( /\ calls'[id].promise = calls[id].promise
                    /\ calls'[id].result = calls[id].result
                    /\ id \notin timers'
                    /\ id \notin DOMAIN messageHandlers' ) ]_vars

\* C12 witness: a send has rejected while another request was pending with
\* its timer armed; the failed call has the transmit error, no timer and no
\* entry in the table.
C12_Witness ==
    \E id \in DOMAIN calls, other \in DOMAIN messageHandlers :
        /\ TransmitFailed(id) /\ id \notin timers /\ id \notin DOMAIN messageHandlers
        /\ other # id /\ other \in timers /\ Promise(other).state = "pending"

\* ================================================================ retry claims
\* a failure the retry policy is to retry: a request failure whose status is
\* there and is one of the retryable ones
RetryableFailure(cfg, o) ==
    /\ ~o.ok
    /\ o.class = "MCPRequestError"
    /\ o.hasStatus /\ o.status \in cfg.retryableStatusCodes
NonRetryableFailure(cfg, o) == ~o.ok /\ ~RetryableFailure(cfg, o)
LastInvocation == invocations[Len(invocations)]

\* C13: as long as every invocation has failed with a retryable request
\* failure, the operation is invoked at most maxRetries + 1 times, withRetry
\* never returns, and it fails exactly when invocation maxRetries + 1 has
\* failed, with the failure of that invocation.
C13_RetryBound ==
    ( pc # "idle" /\ \A i \in 1..Len(invocations) : RetryableFailure(config, invocations[i]) )
    => /\ Len(invocations) <= config.maxRetries + 1
       /\ pc # "returned"
       /\ pc = "threw" <=> Len(invocations) = config.maxRetries + 1
       /\ pc = "threw" => retryResult = LastInvocation

\* C13 witness: with the default configuration four invocations have failed
\* with retryable statuses and withRetry has failed with the fourth failure.
C13_Witness ==
    /\ config = defaultRetryConfig
    /\ Len(invocations) = 4
    /\ \A i \in 1..4 : RetryableFailure(config, invocations[i])
    /\ pc = "threw" /\ retryResult.n = 4

C15_FirstSuccess ==
    \A k \in 1..Len(invocations) :
        invocations[k].ok
        => /\ k = Len(invocations)
           /\ k <= config.maxRetries + 1
           /\ \A j \in 1..(k - 1) : RetryableFailure(config, invocations[j])
           /\ pc = "returned"
           /\ retryResult = invocations[k]

\* C15 witness: two retryable failures, then the third invocation succeeded
\* and withRetry has returned its result.
C15_Witness ==
    /\ Len(invocations) = 3
    /\ invocations[3].ok
    /\ pc = "returned" /\ retryResult.n = 3

\* ================================================================ reconnect claims
\* the limit as configured: the number given, 5 when none is given
ConfiguredLimit(opt) == IF opt.present THEN opt.value ELSE 5
\* a reconnect attempt is scheduled in this step
AttemptScheduled == reconnectAttempts' = reconnectAttempts + 1
\* a reconnect attempt fails in this step and completes a run of `n` or more
\* failed attempts
RunOfFailures(n) ==
    /\ attempting' = attempting - 1
    /\ lastReconnect'.outcome = "failed"
    /\ lastReconnect'.failures >= n

\* C16: a reconnect attempt is scheduled only while the attempt counter is
\* below the configured maxReconnectAttempts (5 when none is configured), and
\* the failure of the attempt that completes maxReconnectAttempts failures in
\* a row leaves the client failed with no further attempt scheduled.
C16_AttemptLimit ==
    [][ /\ AttemptScheduled => reconnectAttempts < ConfiguredLimit(options)
        /\ RunOfFailures(ConfiguredLimit(options))
             => ( /\ failed'
                  /\ reconnectAttempts' = reconnectAttempts
                  /\ strayTimers' = strayTimers
                  /\ reconnectTimeout' = reconnectTimeout ) ]_vars

\* connect() is called in this step by the client's user, after reconnection
\* had been given up
ConnectAfterFailed == failed /\ ~failed' /\ attempting' = attempting

\* C17: connect() called after reconnection was given up sets the attempt
\* counter to 0.
C17_ConnectRestarts ==
    [][ ConnectAfterFailed => reconnectAttempts' = 0 ]_vars

\* the connect() of a reconnect callback returns in this step
Reconnected == attempting' = attempting - 1 /\ lastReconnect'.outcome = "ok"

\* C18: when the connect() of a reconnect callback succeeds, the attempt
\* counter becomes 0 and the client holds a connection, however many attempts
\* failed before.
C18_ReconnectResets ==
    [][ Reconnected => ( reconnectAttempts' = 0 /\ connection' ) ]_vars

\* C18 witness: a reconnect has succeeded after two failed attempts in a row;
\* the counter is 0 and the client is connected.
C18_Witness ==
    /\ lastReconnect.outcome = "ok" /\ lastReconnect.failures >= 2
    /\ reconnectAttempts = 0
    /\ connection

\* C19: a call made after reconnection was given up, and before any
\* connect(), has failed with the max-reconnect-attempts error and is not
\* being transmitted.
C19_FailedIsTerminal ==
    \A id \in DOMAIN calls :
        calls[id].whenFailed
        => /\ Promise(id).state = "rejected"
           /\ Promise(id).error = MaxReconnectError
           /\ id \notin sending

\* the loss of the link is signalled in this step, or disconnect() closes the
\* connection
ConnectionLost == losses' = losses + 1 \/ ( connection /\ ~connection' )

\* C20: the step in which the link loss is signalled, or in which
\* disconnect() closes the connection, fails every request that is pending and
\* removes it from the tracking table, with its timer.
C20_FailFast ==
    [][ ConnectionLost
        => \A id \in DOMAIN calls :
              Promise(id).state = "pending"
              => /\ calls'[id].promise.state = "rejected"
                 /\ id \notin DOMAIN messageHandlers'
                 /\ id \notin timers' ]_vars

\* ================================================================ registry claims
\* handleMessage call i unregistered tool t / was a register message for t
UnregisteredBy(i, t) ==
    inbound[i].type = "unregister" /\ inbound[i].state = "returned" /\ inbound[i].tool = t
RegisterFor(i, t) == inbound[i].type = "register" /\ inbound[i].tool = t
AnsweredNotFound(j) ==
    \E k \in ResponsesTo(inbound[j].id) : sent[k].error.code = "HANDLER_NOT_FOUND"

\* C21: right after unregister(t) the tool table has no t and the routing
\* table has no key t.<method>; in no state does the routing table hold an
\* entry of a tool that is not in the tool table; and a command for t that
\* arrives after the unregistration, with no register message for t in
\* between, is answered HANDLER_NOT_FOUND.
C21_UnregisterComplete ==
    /\ \A key \in DOMAIN commandHandlers : commandHandlers[key].tool \in DOMAIN tools
    /\ \A t \in ToolNames :
          ( Len(inbound) > 0 /\ UnregisteredBy(Len(inbound), t) )
          => /\ t \notin DOMAIN tools
             /\ \A m \in MethodNames : CommandKey(t, m) \notin DOMAIN commandHandlers
    /\ \A i \in 1..Len(inbound), j \in 1..Len(inbound), t \in ToolNames :
          ( /\ i < j
            /\ UnregisteredBy(i, t)
            /\ inbound[j].type = "command" /\ inbound[j].tool = t
            /\ \A h \in (i + 1)..(j - 1) : ~RegisterFor(h, t) )
          => AnsweredNotFound(j)

\* C21 witness: a tool was registered with a method, then unregistered, and
\* a command for that method arrived afterwards and was answered.
C21_Witness ==
    \E t \in ToolNames :
        /\ Len(inbound) = 3
        /\ RegisterFor(1, t) /\ inbound[1].state = "returned"
        /\ Len(inbound[1].methods) > 0
        /\ UnregisteredBy(2, t)
        /\ inbound[3].type = "command" /\ inbound[3].tool = t
        /\ inbound[3].method = inbound[1].methods[1]
        /\ AnsweredNotFound(3)

\* ================================================================ HTTP client claims
\* request i of the call failed with an HTTP error status
HttpError(i) == requests[i].kind = "axiosError" /\ requests[i].hasResponse

C23_LinearBackoff ==
    /\ \A k \in 1..Len(waits) : waits[k] = config.retryDelay * k
    /\ pc \in { "call", "wait" } => Len(waits) = Len(invocations)
    /\ ( pc \in { "returned", "threw" } /\ invocations # << >> )
          => Len(waits) = Len(invocations) - 1

\* C23 witness: with a base delay of 2000 three retryable failures were
\* followed by waits of 2000, 4000 and 6000, the fourth attempt failed as
\* well, and the run ended on it with no further wait.
C23_Witness ==
    /\ config.retryDelay = 2000 /\ config.maxRetries = 3
    /\ waits = << 2000, 4000, 6000 >>
    /\ Len(invocations) = 4
    /\ RetryableFailure(config, invocations[4])
    /\ pc = "threw"

\* ---- C24
\* a message with this id is handed to connection.send in this step
Transmitted(id) == id \in sending' /\ id \notin sending
\* this step is the sendAndWaitForResponse call that created the message
CallMade(id) == id \notin DOMAIN calls /\ id \in DOMAIN calls'

\* C24 (at-most-once delivery): a message is handed to connection.send only
\* in the step of the sendAndWaitForResponse call that created it, so every
\* call transmits at most once; no step that establishes a connection,
\* connect() or the reconnect callback, hands any message to send.
C24_AtMostOnce ==
    [][ /\ \A id \in 1..MaxCalls : Transmitted(id) => CallMade(id)
        /\ ( ~connection /\ connection' ) => sending' = sending ]_vars

\* C24 witness: the connection was re-established by the reconnect callback
\* while the first request, whose send had resolved, was still awaited.
C24_Witness ==
    /\ connection
    /\ lastReconnect.outcome = "ok"
    /\ 1 \in DOMAIN messageHandlers
    /\ 1 \notin sending

\* ---- C25
\* C25 (non-blocking dispatch): while the handler of some command has not
\* completed, the server can still take every later message, and taking it
\* has its whole effect at once: a command for a key without handler is
\* answered HANDLER_NOT_FOUND, a command for a key with a handler has that
\* handler started next to the running ones, a register stores the tool and
\* an unregister removes it.
C25_NonBlocking ==
    ( running # {} /\ Len(inbound) < MaxMsgs )
    => /\ \A t \in ToolNames, m \in MethodNames :
             IF GetHandler(commandHandlers, CommandKey(t, m)) = NoHandler
             THEN ENABLED ( /\ HandleCommand(t, m)
                            /\ Last(sent') = NotFoundResponse(NextMsgId, CommandKey(t, m))
                            /\ running' = running )
             ELSE ENABLED ( /\ HandleCommand(t, m)
                            /\ Cardinality(running') = Cardinality(running) + 1 )
       /\ \A p \in ToolPayloads :
             ENABLED ( /\ HandleRegister(p)
                       /\ ( p.kind = "object" => p.name \in DOMAIN tools' )
                       /\ running' = running )
       /\ \A p \in UnregisterPayloads :
             ENABLED ( /\ HandleUnregister(p)
                       /\ ( ( p.kind = "object" /\ p.hasToolName )
                               => p.toolName \notin DOMAIN tools' )
                       /\ running' = running )
       /\ \A ty \in OtherTypes : ENABLED HandleOther(ty)

\* C25 witness: command A, the second message, is still waiting for its
\* handler while command B, the third, has been answered with its handler's
\* result.
C25_Witness ==
    /\ Len(inbound) = 3
    /\ inbound[2].type = "command" /\ inbound[2].state = "awaiting"
    /\ inbound[3].type = "command" /\ inbound[3].state = "returned"
    /\ inbound[3].outcome.kind = "return"
    /\ Last(sent) = ResultResponse(3, inbound[3].outcome.value)

\* ---- C26
\* the calls whose promise is not settled
Unsettled == { id \in DOMAIN calls : Promise(id).state = "pending" }

\* C26 (no leak): the ids in the request-tracking table are exactly the ids
\* of the sendAndWaitForResponse calls that are not settled; so once every
\* call has settled, by response, timeout or send failure, the table is empty.
C26_NoLeak == DOMAIN messageHandlers = Unsettled

\* C26 witness: two calls were tracked; the first was settled by its
\* Response, the second by a timeout or a send failure, and the table is
\* empty again.
C26_Witness ==
    /\ DOMAIN calls = { 1, 2 }
    /\ Promise(1).state = "resolved"
    /\ Promise(2).state = "rejected" /\ Promise(2).error # NotConnectedError
    /\ messageHandlers = EmptyMap

\* ---- C27
\* the routing keys the tool table calls for: one per method of every tool
ExpectedKeys ==
    UNION { { CommandKey(t, tools[t].methods[k]) : k \in 1..Len(tools[t].methods) } :
            t \in DOMAIN tools }

\* C27 (registry consistency): the key set of the handler table is exactly
\* the set of keys tool.method formed from the tools of the tool table and
\* their methods: no entry is left over from an earlier registration and no
\* registered tool lacks an entry.
C27_RegistryConsistent == DOMAIN commandHandlers = ExpectedKeys

\* ---- C28
\* the client holds no connection: it was never connected, or disconnect()
\* was the last call to change the connection (nothing else sets it to null)
Disconnected == ~connection
\* a reconnect timer is armed, or a reconnect callback is inside connect()
ReconnectPending == reconnectTimeout = "armed" \/ strayTimers > 0 \/ attempting > 0

\* C28 (disconnect stops reconnection): from disconnect() until connect() is
\* called no reconnect timer is pending and no reconnect attempt is being
\* performed, and the client comes to hold a connection again only through
\* a connect() call of its user, never through a reconnect callback; also
\* when disconnect() is called during a reconnect wait or during an attempt.
C28_DisconnectStops ==
    [][ /\ Disconnected' => ~ReconnectPending'
        /\ ( Disconnected /\ ~Disconnected' ) => attempting' = attempting ]_vars

\* ---- C29
\* C29 (the configured limit is respected for every value): the attempt
\* counter stays within 0..maxReconnectAttempts as configured, 0 included,
\* the default of 5 standing in only when no value is configured; so no more
\* attempts than configured are scheduled after a link loss.
C29_LimitRespected ==
    /\ reconnectAttempts \in 0..ConfiguredLimit(options)
    /\ ( options = Option(0) => ( reconnectTimeout = "null" /\ attempting = 0 ) )

\* ---- C30
\* the number of reconnect attempts scheduled or under way
AttemptsPending ==
    ( IF reconnectTimeout = "armed" THEN 1 ELSE 0 ) + strayTimers + attempting
\* this step is handleDisconnect run for a link loss
LossSignalled == losses' = losses + 1

\* C30 (at most one reconnect attempt at any time): a loss signalled while
\* an attempt is already scheduled or under way starts no second timer and
\* does not increment the counter again, so at most one attempt is pending
\* and the timer this.reconnectTimeout refers to, the one disconnect()
\* cancels, is the only one.
C30_SingleAttempt ==
    [][ /\ ( LossSignalled /\ ReconnectPending )
             => /\ reconnectAttempts' = reconnectAttempts
                /\ reconnectTimeout' = reconnectTimeout
        /\ AttemptsPending' <= 1
        /\ strayTimers' = 0 ]_vars

====
